---- MODULE Spec2Model ----
(***************************************************************************)
(* Model of the ingestion-and-liveness core of the RoboCup dashboard       *)
(* (src/dashboard_core.py, class DashboardCore) with the GUI thread that   *)
(* polls it (src/dashboard_gui.py, RoboCupDashboard.update_gui).           *)
(*                                                                         *)
(* Three Python threads share self.robots without any lock:                *)
(*   - the receive thread   (_receive_data -> _process_robot_data),        *)
(*   - the cleanup thread   (_cleanup_expired_robots),                     *)
(*   - the GUI thread       (get_robots / get_connected_robots).           *)
(* Every action below is one step that the interpreter cannot interleave   *)
(* with another thread's access to the shared objects it touches; the      *)
(* source lines of each step are listed in MODEL_MAP.json.                 *)
(*                                                                         *)
(* Objects.  self.robots maps a key to a *reference* to a RobotData        *)
(* object; `heap` maps references to field values, so that a dict copy     *)
(* (get_robots) shares the objects, and an object deleted from the dict    *)
(* lives on while a thread still holds it.                                 *)
(*                                                                         *)
(* Time.  The clock counts whole seconds.  A record stores                 *)
(* age = now - last_update instead of last_update itself, saturating one   *)
(* second above the largest threshold the code compares it with;           *)
(* `robot.last_update = datetime.now()` is age' = 0 and a clock tick ages  *)
(* every object by one.  A handler run (one datagram, one sweep, one GUI   *)
(* poll) takes well under a second, so the clock only ticks while the      *)
(* receive thread is blocked in recvfrom, the cleanup thread is in         *)
(* time.sleep and the GUI is between polls; within one second the steps    *)
(* of the three threads interleave freely.                                 *)
(***************************************************************************)
EXTENDS Integers, Sequences, FiniteSets, TLC

VARIABLES
    robots,            \* self.robots: sequence of [key, ref] in insertion order
    heap,              \* reference -> RobotData field values
    timeout_seconds,   \* self.timeout_seconds
    update_callbacks,  \* self.update_callbacks
    running,           \* self.running
    rx,                \* the receive thread: position and locals
    sw,                \* the cleanup thread: position and locals
    gui,               \* the GUI thread: position and the dict it got from get_robots()
    snap_copy,         \* history: field values of the GUI's records when get_robots() returned
    hist,              \* history of the run, read by the properties only:
                       \*   sweep_notified[k]: notifications the sweeper made for key k since k's last datagram
                       \*   after_invalid: the previous payload was dropped while the store was empty
                       \*   evicted: the keys the sweeper deleted during the current second
                       \*   swept: a sweep tick has ended (completed or aborted)
                       \*   last[k]: the last object received for key k still in the store
                       \*   tick_marked: the keys the current sweep tick has marked disconnected
                       \*   tick_notified: the keys the current sweep tick has notified the observers of
                       \*   sent: the commands sent on the network
                       \*   superseded: the threads still alive when a later start() replaced
                       \*     them in self.receive_thread / self.cleanup_thread (0 or 1 of each
                       \*     kind is followed); the restart steps read and write it
    budget,            \* the environment's budget of datagrams and seconds (unlimited by default)
    inputs,            \* the payloads the network may deliver
    port,              \* self.port
    socket,            \* self.socket: whether it exists and the port it is bound to
    main               \* the main thread: its position and the launcher's arguments

\* what the receive, cleanup and polling steps read and never write
env == <<timeout_seconds, update_callbacks, running, inputs, port, socket, main>>

vars == <<robots, heap, rx, sw, gui, snap_copy, hist, budget, env>>

-----------------------------------------------------------------------------
(* Python dict.get and JSON values *)

EmptyDict == [k \in {} |-> 0]

Get(d, k, default) == IF k \in DOMAIN d THEN d[k] ELSE default

\* A JSON string or number where the code expects an object, as in "game": "PLAYING".
Scalar(v) == [json_scalar |-> v]

\* Whether v has a .get method.
IsObject(v) == "json_scalar" \notin DOMAIN v

\* f"robot{robot_id}"
FormatRobotName(robot_id) == "robot" \o ToString(robot_id)

-----------------------------------------------------------------------------
(* Program constants *)

very_old_delta == 30

DefaultTimeoutSeconds == 5

DefaultPort == 8080

\* python main.py --port 9090
CustomPort == 9090

\* Ages saturate one above the largest threshold they are compared with.
AgeCap == IF timeout_seconds > very_old_delta THEN timeout_seconds + 1
          ELSE very_old_delta + 1

Older(age) == IF age < AgeCap THEN age + 1 ELSE age

-----------------------------------------------------------------------------
(* RobotData *)

RobotData ==
    [ robot_id |-> -1, robot_name |-> "", team_id |-> -1, timestamp |-> 0,
      age |-> 0,
      game_state |-> "UNKNOWN", kickoff_side |-> FALSE, score |-> 0,
      pose_x |-> 0, pose_y |-> 0, pose_theta |-> 0,
      ball_detected |-> FALSE, ball_x |-> 0, ball_y |-> 0, ball_range |-> 0,
      role |-> "unknown", dynamic_role |-> -1, has_possession |-> FALSE,
      possession_player |-> -1, ball_cost |-> 0,
      decision |-> "unknown", ball_location_known |-> FALSE,
      avg_loop_time |-> 0, max_loop_time |-> 0,
      head_pitch |-> 0, head_yaw |-> 0,
      recovery_state |-> 0, recovery_available |-> FALSE,
      team_count |-> 0,
      is_connected |-> FALSE ]

-----------------------------------------------------------------------------
(* self.robots as an insertion-ordered dict of references *)

Keys(d) == {d[i].key : i \in DOMAIN d}

Has(d, k) == k \in Keys(d)

Lookup(d, k) == d[CHOOSE i \in DOMAIN d : d[i].key = k].ref

Insert(d, k, r) == Append(d, [key |-> k, ref |-> r])

\* a del that removes nothing
DeleteNothing(d, k) == d

Delete(d, k) == SelectSeq(d, LAMBDA e : e.key # k)

KeyList(d) == [i \in DOMAIN d |-> d[i].key]

Refs(d) == {d[i].ref : i \in DOMAIN d}

\* the record stored under key k
Stored(k) == heap[Lookup(robots, k)]

NoRef == 0

NewRef == CHOOSE r \in 1..(Cardinality(DOMAIN heap) + 1) : r \notin DOMAIN heap

\* The objects some thread or dict still refers to; the others are reclaimed.
Roots(d, rxl, swl, g) ==
    (Refs(d) \cup {rxl.robot, swl.robot, g.robot} \cup Refs(g.robots)) \ {NoRef}

Reclaim(h, roots) == [r \in (DOMAIN h \cap roots) |-> h[r]]

-----------------------------------------------------------------------------
(* _process_robot_data: the assignments, block by block *)

UpdateBasicInfo(r, robot_id, data) ==
    [r EXCEPT !.robot_id = robot_id,
              !.robot_name = Get(data, "robot_name", FormatRobotName(robot_id)),
              !.team_id = Get(data, "team_id", -1),
              !.timestamp = Get(data, "timestamp", 0)]

\* the game block with the role block's lower-case default
UpdateGameLowerCase(r, data) ==
    LET game_data == Get(data, "game", EmptyDict) IN
    [r EXCEPT !.game_state = Get(game_data, "state", "unknown"),
              !.kickoff_side = Get(game_data, "kickoff_side", FALSE),
              !.score = Get(game_data, "score", 0)]

UpdateGame(r, data) ==
    LET game_data == Get(data, "game", EmptyDict) IN
    [r EXCEPT !.game_state = Get(game_data, "state", "UNKNOWN"),
              !.kickoff_side = Get(game_data, "kickoff_side", FALSE),
              !.score = Get(game_data, "score", 0)]

UpdatePose(r, data) ==
    LET robot_data == Get(data, "robot", EmptyDict)
        pose_data == Get(robot_data, "pose", EmptyDict) IN
    [r EXCEPT !.pose_x = Get(pose_data, "x", 0),
              !.pose_y = Get(pose_data, "y", 0),
              !.pose_theta = Get(pose_data, "theta", 0)]

UpdateBall(r, data) ==
    LET robot_data == Get(data, "robot", EmptyDict)
        ball_data == Get(robot_data, "ball", EmptyDict) IN
    [r EXCEPT !.ball_detected = Get(ball_data, "detected", FALSE),
              !.ball_x = Get(ball_data, "x", 0),
              !.ball_y = Get(ball_data, "y", 0),
              !.ball_range = Get(ball_data, "range", 0)]

UpdateCollaboration(r, data) ==
    LET collab_data == Get(data, "collaboration", EmptyDict) IN
    [r EXCEPT !.role = Get(collab_data, "role", "unknown"),
              !.dynamic_role = Get(collab_data, "dynamic_role", -1),
              !.has_possession = Get(collab_data, "has_possession", FALSE),
              !.possession_player = Get(collab_data, "possession_player", -1),
              !.ball_cost = Get(collab_data, "ball_cost", 0)]

UpdateBehavior(r, data) ==
    LET behavior_data == Get(data, "behavior", EmptyDict) IN
    [r EXCEPT !.decision = Get(behavior_data, "decision", "unknown"),
              !.ball_location_known = Get(behavior_data, "ball_location_known", FALSE)]

UpdatePerformance(r, data) ==
    LET perf_data == Get(data, "performance", EmptyDict) IN
    [r EXCEPT !.avg_loop_time = Get(perf_data, "avg_loop_time", 0),
              !.max_loop_time = Get(perf_data, "max_loop_time", 0)]

UpdateHead(r, data) ==
    LET head_data == Get(data, "head", EmptyDict) IN
    [r EXCEPT !.head_pitch = Get(head_data, "pitch", 0),
              !.head_yaw = Get(head_data, "yaw", 0)]

UpdateRecovery(r, data) ==
    LET recovery_data == Get(data, "recovery", EmptyDict) IN
    [r EXCEPT !.recovery_state = Get(recovery_data, "state", 0),
              !.recovery_available = Get(recovery_data, "available", FALSE)]

UpdateTeamCount(r, data) == [r EXCEPT !.team_count = Get(data, "team_count", 0)]

\* The blocks after `robot.is_connected = True`, in source order.
Blocks == <<"game", "pose", "ball", "collaboration", "behavior",
            "performance", "head", "recovery", "team_count">>

UpdateBlock(b, r, data) ==
    CASE b = "game"          -> UpdateGame(r, data)
      [] b = "pose"          -> UpdatePose(r, data)
      [] b = "ball"          -> UpdateBall(r, data)
      [] b = "collaboration" -> UpdateCollaboration(r, data)
      [] b = "behavior"      -> UpdateBehavior(r, data)
      [] b = "performance"   -> UpdatePerformance(r, data)
      [] b = "head"          -> UpdateHead(r, data)
      [] b = "recovery"      -> UpdateRecovery(r, data)
      [] b = "team_count"    -> UpdateTeamCount(r, data)

\* The values a block calls .get on, after data itself.
Receivers(b, data) ==
    LET robot_data == Get(data, "robot", EmptyDict)
        section(name) == Get(data, name, EmptyDict) IN
    CASE b = "game"          -> <<section("game")>>
      [] b = "pose"          -> IF IsObject(robot_data)
                                THEN <<robot_data, Get(robot_data, "pose", EmptyDict)>>
                                ELSE <<robot_data>>
      [] b = "ball"          -> IF IsObject(robot_data)
                                THEN <<robot_data, Get(robot_data, "ball", EmptyDict)>>
                                ELSE <<robot_data>>
      [] b = "collaboration" -> <<section("collaboration")>>
      [] b = "behavior"      -> <<section("behavior")>>
      [] b = "performance"   -> <<section("performance")>>
      [] b = "head"          -> <<section("head")>>
      [] b = "recovery"      -> <<section("recovery")>>
      [] b = "team_count"    -> <<>>

\* AttributeError: the block calls .get on a value that is no object; this
\* happens before the block's first assignment.
BlockRaises(b, data) == \E i \in DOMAIN Receivers(b, data) : ~IsObject(Receivers(b, data)[i])

-----------------------------------------------------------------------------
(* Payloads: what recvfrom returns *)

NotJson == [kind |-> "not_json", obj |-> EmptyDict]

BadUtf8 == [kind |-> "bad_utf8", obj |-> EmptyDict]

NonObject == [kind |-> "json_non_object", obj |-> EmptyDict]

NoPayload == [kind |-> "none", obj |-> EmptyDict]

\* {"robot_id": [1]}: a JSON object whose robot_id cannot be a dict key
UnhashableId == [kind |-> "json_unhashable_id", obj |-> EmptyDict]

Object(o) == [kind |-> "json_object", obj |-> o]

\* A datagram as the robots send it (robot_simulator.generate_data): every section present.
FullObject(id) ==
    [ robot_id |-> id, robot_name |-> "striker", team_id |-> 1, timestamp |-> 7,
      team_count |-> 3,
      game |-> [state |-> "READY", kickoff_side |-> TRUE, score |-> 1],
      robot |-> [pose |-> [x |-> 1, y |-> 2, theta |-> 3],
                 ball |-> [detected |-> TRUE, x |-> 4, y |-> 5, range |-> 6]],
      collaboration |-> [role |-> "striker", dynamic_role |-> 1, has_possession |-> TRUE,
                         possession_player |-> id, ball_cost |-> 9],
      behavior |-> [decision |-> "chase", ball_location_known |-> TRUE],
      performance |-> [avg_loop_time |-> 2, max_loop_time |-> 8],
      head |-> [pitch |-> 1, yaw |-> 2],
      recovery |-> [state |-> 1, available |-> TRUE] ]

\* {"robot_id": id, "game": {"state": "PLAYING", "score": 2}}
GameObject(id) == [robot_id |-> id, game |-> [state |-> "PLAYING", score |-> 2]]

\* {"robot_id": id}
BareObject(id) == [robot_id |-> id]

\* A datagram without robot_id.
AnonymousObject == [game |-> [state |-> "SET", score |-> 4]]

InvalidPayloads == {NotJson, BadUtf8, NonObject}

\* Payloads of the default specification: one robot, a datagram without id, the reserved id.
MainPayloads ==
    InvalidPayloads \cup
    { Object(FullObject(1)), Object(GameObject(1)), Object(AnonymousObject),
      Object(GameObject(-1)) }

\* Payloads of a sender that reports a negative id.
NegativeIdPayloads == {NotJson, Object(BareObject(-2)), Object(AnonymousObject)}

\* The keys any of the payload sets can put into self.robots.
PossibleKeys == {Get(p.obj, "robot_id", -1) : p \in MainPayloads \cup NegativeIdPayloads} \ {-1}

\* The keys the payloads can put into self.robots.
IdOf(p) == Get(p.obj, "robot_id", -1)

AllKeys == {IdOf(p) : p \in inputs} \ {-1}

-----------------------------------------------------------------------------
(* self.socket, the observers and the main thread *)

\* self.socket = None
NoSocket == [open |-> FALSE, port |-> 0]

\* socket.socket(AF_INET, SOCK_DGRAM), not bound yet
NewSocket == [open |-> TRUE, port |-> 0]

\* self.socket.bind(('', p))
Bound(p) == [open |-> TRUE, port |-> p]

\* Whether a call of the observer can raise: the GUI's on_robot_update is `pass`
\* and returns; any other registered observer returns or raises.
CallOutcomes(callback) ==
    IF callback = "on_robot_update" THEN {"returned"} ELSE {"returned", "raised"}

\* The main thread once it is in RoboCupDashboard.run (root.mainloop()).
MainLoop(p, t) == [pc |-> "mainloop", args_port |-> p, args_timeout |-> t, waited |-> 0]

\* join(timeout=2.0)
join_timeout == 2

\* One more second spent in a join, counted up to the join's timeout.
Waited(m) ==
    IF m.pc \in {"join_receive", "join_cleanup"} /\ m.waited < join_timeout
    THEN [m EXCEPT !.waited = @ + 1] ELSE m

-----------------------------------------------------------------------------
(* The environment: how many datagrams arrive and how many seconds pass *)

Unlimited == [limited |-> FALSE, left |-> 0]

AtMost(n) == [limited |-> TRUE, left |-> n]

CanSpend(b) == ~b.limited \/ b.left > 0

Spend(b) == IF b.limited THEN [b EXCEPT !.left = @ - 1] ELSE b

-----------------------------------------------------------------------------
(* The receive thread: _receive_data and _process_robot_data *)

RxIdle ==
    [ pc |-> "recv", payload |-> NoPayload, robot_id |-> -1, robot |-> NoRef,
      blk |-> 0, cb |-> 0, created |-> FALSE, existed |-> FALSE,
      before |-> RobotData, calls |-> 0, outcome |-> "none",
      called |-> <<>>, raised |-> {} ]

\* a robot_id that defaults to a valid key
RobotIdOrZero(data) == Get(data, "robot_id", 0)

\* line 167: robot_id = data.get('robot_id', -1)
RobotIdOf(data) == Get(data, "robot_id", -1)

\* lines 138-169: recvfrom, decode, json.loads, robot_id = data.get('robot_id', -1)
RxReceive(p) ==
    /\ rx.pc = "recv"
    /\ running
    /\ CanSpend(budget.datagrams)
    /\ budget' = [budget EXCEPT !.datagrams = Spend(@)]
    /\ rx' = CASE p.kind = "not_json" ->
                    [rx EXCEPT !.pc = "done", !.payload = p, !.outcome = "invalid_json"]
               [] p.kind = "bad_utf8" ->
                    [rx EXCEPT !.pc = "done", !.payload = p, !.outcome = "decode_error"]
               [] p.kind = "json_non_object" ->
                    [rx EXCEPT !.pc = "done", !.payload = p, !.outcome = "exception"]
               [] p.kind = "json_unhashable_id" ->
                    \* line 172 raises TypeError, caught in line 243
                    [rx EXCEPT !.pc = "done", !.payload = p, !.outcome = "exception"]
               [] OTHER ->
                    IF RobotIdOf(p.obj) = -1
                    THEN [rx EXCEPT !.pc = "done", !.payload = p, !.outcome = "no_id"]
                    ELSE [rx EXCEPT !.pc = "contains", !.payload = p,
                                    !.robot_id = RobotIdOf(p.obj)]
    /\ UNCHANGED <<robots, heap, sw, gui, snap_copy, hist, env>>

\* line 172: if robot_id not in self.robots
RxContains ==
    /\ rx.pc = "contains"
    /\ rx' = IF Has(robots, rx.robot_id)
             THEN [rx EXCEPT !.pc = "fetch", !.existed = TRUE]
             ELSE [rx EXCEPT !.pc = "create"]
    /\ UNCHANGED <<robots, heap, sw, gui, snap_copy, hist, budget, env>>

\* line 173: self.robots[robot_id] = RobotData()   (last_update = datetime.now())
RxCreate ==
    /\ rx.pc = "create"
    /\ LET r == NewRef IN
        /\ robots' = Insert(robots, rx.robot_id, r)
        /\ heap' = [x \in DOMAIN heap \cup {r} |-> IF x = r THEN RobotData ELSE heap[x]]
    /\ rx' = [rx EXCEPT !.pc = "fetch", !.created = TRUE]
    /\ UNCHANGED <<sw, gui, snap_copy, hist, budget, env>>

\* line 175: robot = self.robots[robot_id]   (KeyError -> line 243)
RxFetch ==
    /\ rx.pc = "fetch"
    /\ rx' = IF Has(robots, rx.robot_id)
             THEN [rx EXCEPT !.pc = "basic", !.robot = Lookup(robots, rx.robot_id),
                             !.before = heap[Lookup(robots, rx.robot_id)]]
             ELSE [rx EXCEPT !.pc = "done", !.outcome = "exception"]
    /\ UNCHANGED <<robots, heap, sw, gui, snap_copy, hist, budget, env>>

\* lines 178-181
RxBasicInfo ==
    /\ rx.pc = "basic"
    /\ heap' = [heap EXCEPT ![rx.robot] = UpdateBasicInfo(@, rx.robot_id, rx.payload.obj)]
    /\ rx' = [rx EXCEPT !.pc = "last_update"]
    /\ UNCHANGED <<robots, sw, gui, snap_copy, hist, budget, env>>

SetLastUpdate(r) == [r EXCEPT !.age = 0]

\* line 182: robot.last_update = datetime.now()
RxLastUpdate ==
    /\ rx.pc = "last_update"
    /\ heap' = [heap EXCEPT ![rx.robot] = SetLastUpdate(@)]
    /\ rx' = [rx EXCEPT !.pc = "is_connected"]
    /\ hist' = [hist EXCEPT !.sweep_notified[rx.robot_id] = 0,
                            !.last[rx.robot_id] =
                                IF Has(robots, rx.robot_id) /\ Lookup(robots, rx.robot_id) = rx.robot
                                THEN rx.payload.obj ELSE @]
    /\ UNCHANGED <<robots, sw, gui, snap_copy, budget, env>>

SetConnected(r) == [r EXCEPT !.is_connected = TRUE]

\* line 183: robot.is_connected = True
RxIsConnected ==
    /\ rx.pc = "is_connected"
    /\ heap' = [heap EXCEPT ![rx.robot] = SetConnected(@)]
    /\ rx' = [rx EXCEPT !.pc = "block", !.blk = 1]
    /\ UNCHANGED <<robots, sw, gui, snap_copy, hist, budget, env>>

\* lines 185-234, one block of assignments per step; an AttributeError ends
\* the handler in line 243
RxBlock ==
    /\ rx.pc = "block"
    /\ IF BlockRaises(Blocks[rx.blk], rx.payload.obj)
       THEN /\ heap' = heap
            /\ rx' = [rx EXCEPT !.pc = "done", !.blk = 0, !.outcome = "exception"]
       ELSE /\ heap' = [heap EXCEPT ![rx.robot] =
                                        UpdateBlock(Blocks[rx.blk], @, rx.payload.obj)]
            /\ rx' = IF rx.blk < Len(Blocks)
                     THEN [rx EXCEPT !.blk = @ + 1]
                     ELSE IF update_callbacks = <<>>
                          THEN [rx EXCEPT !.pc = "done", !.blk = 0, !.outcome = "updated"]
                          ELSE [rx EXCEPT !.pc = "notify", !.blk = 0, !.cb = 1]
    /\ UNCHANGED <<robots, sw, gui, snap_copy, hist, budget, env>>

\* a notification loop that an observer's exception leaves (line 243)
RxNotifyAborts ==
    /\ rx.pc = "notify"
    /\ \E result \in CallOutcomes(update_callbacks[rx.cb]) :
        LET called == [rx EXCEPT !.calls = @ + 1, !.called = Append(@, rx.cb),
                                 !.raised = IF result = "raised" THEN @ \cup {rx.cb} ELSE @]
        IN rx' = IF result = "raised"
                 THEN [called EXCEPT !.pc = "done", !.cb = 0, !.outcome = "exception"]
                 ELSE IF rx.cb < Len(update_callbacks)
                      THEN [called EXCEPT !.cb = @ + 1]
                      ELSE [called EXCEPT !.pc = "done", !.cb = 0, !.outcome = "updated"]
    /\ UNCHANGED <<robots, heap, sw, gui, snap_copy, hist, budget, env>>

\* lines 237-241: callback(robot_id, robot), one observer per step
RxNotify ==
    /\ rx.pc = "notify"
    /\ \E result \in CallOutcomes(update_callbacks[rx.cb]) :
        LET called == [rx EXCEPT !.calls = @ + 1, !.called = Append(@, rx.cb),
                                 !.raised = IF result = "raised" THEN @ \cup {rx.cb} ELSE @]
        IN rx' = IF rx.cb < Len(update_callbacks)
                 THEN [called EXCEPT !.cb = @ + 1]
                 ELSE [called EXCEPT !.pc = "done", !.cb = 0, !.outcome = "updated"]
    /\ UNCHANGED <<robots, heap, sw, gui, snap_copy, hist, budget, env>>

\* history: a payload that is not JSON, not an object, or carries no robot_id (or the reserved -1)
StructurallyInvalid(p) ==
    \/ p.kind \in {"not_json", "bad_utf8", "json_non_object"}
    \/ p.kind = "json_object" /\ ("robot_id" \notin DOMAIN p.obj \/ p.obj.robot_id = -1)

\* a handler whose UnicodeDecodeError reaches the outer except clause (line 159)
RxReturnOrBreak ==
    /\ rx.pc = "done"
    /\ rx' = IF rx.outcome = "decode_error" THEN [RxIdle EXCEPT !.pc = "exited"] ELSE RxIdle
    /\ hist' = [hist EXCEPT !.after_invalid = (StructurallyInvalid(rx.payload) /\ robots = <<>>)]
    /\ heap' = Reclaim(heap, Roots(robots, rx', sw, gui))
    /\ UNCHANGED <<robots, sw, gui, snap_copy, budget, env>>

\* _process_robot_data returns; back to `while self.running` (line 136)
RxReturn ==
    /\ rx.pc = "done"
    /\ rx' = RxIdle
    /\ hist' = [hist EXCEPT !.after_invalid = (StructurallyInvalid(rx.payload) /\ robots = <<>>)]
    /\ heap' = Reclaim(heap, Roots(robots, rx', sw, gui))
    /\ UNCHANGED <<robots, sw, gui, snap_copy, budget, env>>

-----------------------------------------------------------------------------
(* The cleanup thread: _cleanup_expired_robots *)

SwSleep(slept) ==
    [ pc |-> "sleep", di_used |-> 0, pos |-> 0, robot_id |-> -1, robot |-> NoRef,
      expired |-> <<>>, n |-> 0, cb |-> 0, keys |-> <<>>, k |-> 0, slept |-> slept,
      called |-> <<>>, raised |-> {} ]

\* history: the tick ends when the thread reaches time.sleep
EndOfTick(h, s) ==
    IF s.pc = "sleep" THEN [h EXCEPT !.swept = TRUE, !.tick_marked = {}, !.tick_notified = {}]
    ELSE h

\* a loop that does not test self.running before its next tick
SwWakeAlways ==
    /\ sw.pc = "sleep"
    /\ sw.slept
    /\ sw' = [sw EXCEPT !.pc = "next", !.di_used = Len(robots), !.pos = 0,
                        !.expired = <<>>]
    /\ UNCHANGED <<robots, heap, rx, gui, snap_copy, hist, budget, env>>

\* lines 248-254: the sleep is over; current_time = now; iter(self.robots.items())
SwWake ==
    /\ sw.pc = "sleep"
    /\ sw.slept
    /\ running
    /\ sw' = [sw EXCEPT !.pc = "next", !.di_used = Len(robots), !.pos = 0,
                        !.expired = <<>>]
    /\ UNCHANGED <<robots, heap, rx, gui, snap_copy, hist, budget, env>>

\* after the first loop: lines 260-261, or line 269 when there is nobody to call
SwAfterScan(s) ==
    IF s.expired = <<>> \/ update_callbacks = <<>>
    THEN [s EXCEPT !.pc = "keys", !.robot_id = -1, !.robot = NoRef]
    ELSE [s EXCEPT !.pc = "notify", !.n = 1, !.cb = 1, !.robot_id = -1, !.robot = NoRef]

\* an iteration whose RuntimeError is not caught and ends the thread
SwNextDies ==
    /\ sw.pc = "next"
    /\ sw' = IF Len(robots) # sw.di_used
             THEN [SwSleep(FALSE) EXCEPT !.pc = "exited"]
             ELSE IF sw.pos = Len(robots)
                  THEN SwAfterScan(sw)
                  ELSE [sw EXCEPT !.pc = "stale", !.pos = @ + 1,
                                  !.robot_id = robots[sw.pos + 1].key,
                                  !.robot = robots[sw.pos + 1].ref]
    /\ heap' = Reclaim(heap, Roots(robots, rx, sw', gui))
    /\ hist' = EndOfTick(hist, sw')
    /\ UNCHANGED <<robots, rx, gui, snap_copy, budget, env>>

\* line 254: the dict iterator's next(); RuntimeError when the dict changed size
SwNext ==
    /\ sw.pc = "next"
    /\ sw' = IF Len(robots) # sw.di_used
             THEN SwSleep(FALSE)
             ELSE IF sw.pos = Len(robots)
                  THEN SwAfterScan(sw)
                  ELSE [sw EXCEPT !.pc = "stale", !.pos = @ + 1,
                                  !.robot_id = robots[sw.pos + 1].key,
                                  !.robot = robots[sw.pos + 1].ref]
    /\ heap' = Reclaim(heap, Roots(robots, rx, sw', gui))
    /\ hist' = EndOfTick(hist, sw')
    /\ UNCHANGED <<robots, rx, gui, snap_copy, budget, env>>

\* current_time - robot.last_update > timeout_delta
IsExpired(r) == r.age > timeout_seconds

\* lines 255-256
SwStale ==
    /\ sw.pc = "stale"
    /\ sw' = IF IsExpired(heap[sw.robot])
             THEN [sw EXCEPT !.pc = "mark", !.expired = Append(@, sw.robot_id)]
             ELSE [sw EXCEPT !.pc = "next"]
    /\ UNCHANGED <<robots, heap, rx, gui, snap_copy, hist, budget, env>>

SetDisconnected(r) == [r EXCEPT !.is_connected = FALSE]

\* line 257: robot.is_connected = False
SwMark ==
    /\ sw.pc = "mark"
    /\ heap' = [heap EXCEPT ![sw.robot] = SetDisconnected(@)]
    /\ sw' = [sw EXCEPT !.pc = "next"]
    /\ hist' = [hist EXCEPT !.tick_marked = @ \cup {sw.robot_id}]
    /\ UNCHANGED <<robots, rx, gui, snap_copy, budget, env>>

\* history: one more notification by the sweeper for this key (counted up to 2)
Counted(n) == IF n < 2 THEN n + 1 ELSE n

\* lines 260-265: callback(robot_id, self.robots[robot_id]), one observer per step
SwNotify ==
    /\ sw.pc = "notify"
    /\ LET id == sw.expired[sw.n] IN
        hist' = IF Has(robots, id) /\ sw.cb = 1
                THEN [hist EXCEPT !.sweep_notified[id] = Counted(@),
                                  !.tick_notified = @ \cup {id}]
                ELSE hist
    /\ \E result \in (IF Has(robots, sw.expired[sw.n])
                        THEN CallOutcomes(update_callbacks[sw.cb]) ELSE {"key_error"}) :
        LET \* the log starts afresh with the first observer of each expired robot
            log == IF sw.cb = 1 THEN [sw EXCEPT !.called = <<>>, !.raised = {}] ELSE sw
            called == [log EXCEPT !.called = IF result = "key_error" THEN @ ELSE Append(@, sw.cb),
                                  !.raised = IF result = "returned" THEN @ ELSE @ \cup {sw.cb}]
        IN sw' = IF sw.cb < Len(update_callbacks)
                 THEN [called EXCEPT !.cb = @ + 1]
                 ELSE IF sw.n < Len(sw.expired)
                      THEN [called EXCEPT !.n = @ + 1, !.cb = 1]
                      ELSE [called EXCEPT !.pc = "keys", !.n = 0, !.cb = 0]
    /\ UNCHANGED <<robots, heap, rx, gui, snap_copy, budget, env>>

\* the second loop moves on to the next key, or the tick ends in time.sleep(1.0)
SwAdvance(s) ==
    IF s.k < Len(s.keys) THEN [s EXCEPT !.pc = "old", !.k = @ + 1]
    ELSE SwSleep(FALSE)

\* line 269: list(self.robots.keys())
SwKeys ==
    /\ sw.pc = "keys"
    /\ sw' = SwAdvance([sw EXCEPT !.keys = KeyList(robots), !.k = 0, !.expired = <<>>,
                                  !.called = <<>>, !.raised = {}])
    /\ hist' = EndOfTick(hist, sw')
    /\ UNCHANGED <<robots, heap, rx, gui, snap_copy, budget, env>>

\* current_time - self.robots[robot_id].last_update > very_old_delta
IsVeryOld(r) == r.age > very_old_delta

\* line 270
SwOld ==
    /\ sw.pc = "old"
    /\ sw' = IF ~Has(robots, sw.keys[sw.k]) THEN SwSleep(FALSE)
             ELSE IF IsVeryOld(Stored(sw.keys[sw.k]))
                  THEN [sw EXCEPT !.pc = "delete"]
                  ELSE SwAdvance(sw)
    /\ hist' = EndOfTick(hist, sw')
    /\ UNCHANGED <<robots, heap, rx, gui, snap_copy, budget, env>>

\* lines 271-272: del self.robots[robot_id]
SwDelete ==
    /\ sw.pc = "delete"
    /\ LET id == sw.keys[sw.k] IN
        /\ robots' = Delete(robots, id)
        /\ sw' = IF Has(robots, id) THEN SwAdvance(sw) ELSE SwSleep(FALSE)
        /\ hist' = EndOfTick(IF Has(robots, id)
                             THEN [hist EXCEPT !.sweep_notified[id] = 0,
                                               !.evicted = @ \cup {id},
                                               !.last[id] = EmptyDict]
                             ELSE hist, sw')
    /\ heap' = Reclaim(heap, Roots(robots', rx, sw', gui))
    /\ UNCHANGED <<rx, gui, snap_copy, budget, env>>

-----------------------------------------------------------------------------
(* The GUI thread: RoboCupDashboard.update_gui *)

GuiIdle == [pc |-> "idle", robots |-> <<>>, di_used |-> 0, pos |-> 0, rid |-> -1,
            robot |-> NoRef, outcome |-> "none"]

\* get_robots: self.robots.copy()
CopyDict(d) == d

\* a get_robots() that hands out the dict itself and leaves an empty one behind
GuiTakeRobots ==
    /\ gui.pc = "idle"
    /\ gui' = [GuiIdle EXCEPT !.pc = "render", !.robots = robots]
    /\ robots' = <<>>
    /\ snap_copy' = [i \in DOMAIN robots |-> heap[robots[i].ref]]
    /\ UNCHANGED <<heap, rx, sw, hist, budget, env>>

\* dashboard_gui.py line 665: robots = self.dashboard_core.get_robots()
GuiGetRobots ==
    /\ gui.pc = "idle"
    /\ gui' = [GuiIdle EXCEPT !.pc = "render", !.robots = CopyDict(robots)]
    /\ snap_copy' = [i \in DOMAIN robots |-> heap[robots[i].ref]]
    /\ UNCHANGED <<robots, heap, rx, sw, hist, budget, env>>

\* update_gui returns and drops the dict
GuiDone ==
    /\ gui.pc = "render"
    /\ gui' = GuiIdle
    /\ snap_copy' = <<>>
    /\ heap' = Reclaim(heap, Roots(robots, rx, sw, gui'))
    /\ UNCHANGED <<robots, rx, sw, hist, budget, env>>

\* dashboard_gui.py line 682 calls get_connected_robots (line 285): the
\* comprehension creates its result and the iterator of self.robots.items()
GuiConnectedBegin ==
    /\ gui.pc = "idle"
    /\ gui' = [GuiIdle EXCEPT !.pc = "connected_next", !.di_used = Len(robots)]
    /\ UNCHANGED <<robots, heap, rx, sw, snap_copy, hist, budget, env>>

\* line 285: the iterator's next(); RuntimeError when the dict changed size,
\* which update_gui catches (dashboard_gui.py line 691)
GuiConnectedNext ==
    /\ gui.pc = "connected_next"
    /\ gui' = IF Len(robots) # gui.di_used
              THEN [GuiIdle EXCEPT !.pc = "connected_done", !.outcome = "RuntimeError"]
              ELSE IF gui.pos = Len(robots)
                   THEN [gui EXCEPT !.pc = "connected_done", !.outcome = "returned"]
                   ELSE [gui EXCEPT !.pc = "connected_test", !.pos = @ + 1,
                                    !.rid = robots[gui.pos + 1].key,
                                    !.robot = robots[gui.pos + 1].ref]
    /\ heap' = Reclaim(heap, Roots(robots, rx, sw, gui'))
    /\ UNCHANGED <<robots, rx, sw, snap_copy, hist, budget, env>>

\* line 285: if robot.is_connected, the item goes into the result
GuiConnectedTest ==
    /\ gui.pc = "connected_test"
    /\ gui' = [gui EXCEPT !.pc = "connected_next", !.rid = -1, !.robot = NoRef,
                          !.robots = IF heap[gui.robot].is_connected
                                     THEN Append(@, [key |-> gui.rid, ref |-> gui.robot])
                                     ELSE @]
    /\ heap' = Reclaim(heap, Roots(robots, rx, sw, gui'))
    /\ UNCHANGED <<robots, rx, sw, snap_copy, hist, budget, env>>

\* update_gui has counted the result (or reported the error) and drops it
GuiConnectedDone ==
    /\ gui.pc = "connected_done"
    /\ gui' = GuiIdle
    /\ heap' = Reclaim(heap, Roots(robots, rx, sw, gui'))
    /\ UNCHANGED <<robots, rx, sw, snap_copy, hist, budget, env>>

\* send_command_to_robot (lines 287-291): prints the command and returns True;
\* nothing is sent
SendCommandToRobot ==
    /\ gui.pc = "idle"
    /\ gui' = [GuiIdle EXCEPT !.pc = "command_done", !.outcome = "True"]
    /\ UNCHANGED <<robots, heap, rx, sw, snap_copy, hist, budget, env>>

\* the caller has the result
GuiCommandDone ==
    /\ gui.pc = "command_done"
    /\ gui' = GuiIdle
    /\ UNCHANGED <<robots, heap, rx, sw, snap_copy, hist, budget, env>>

-----------------------------------------------------------------------------
(* The clock *)

Aged(r) == [r EXCEPT !.age = Older(@)]

\* one second passes while every thread is blocked
Tick ==
    /\ CanSpend(budget.seconds)
    /\ budget' = [budget EXCEPT !.seconds = Spend(@)]
    /\ rx.pc \in {"unstarted", "recv", "exited"}
    /\ sw.pc \in {"unstarted", "sleep", "exited"}
    /\ gui.pc = "idle"
    /\ main.pc \in {"mainloop", "join_receive", "join_cleanup", "stopped"}
    /\ heap' = [r \in DOMAIN heap |-> Aged(heap[r])]
    /\ sw' = [sw EXCEPT !.slept = TRUE]
    /\ hist' = [hist EXCEPT !.evicted = {}]
    /\ main' = Waited(main)
    /\ UNCHANGED <<robots, rx, gui, snap_copy, timeout_seconds, update_callbacks, running,
                   inputs, port, socket>>

-----------------------------------------------------------------------------
(* The default specification: the core after start(), with the GUI's observer
   registered (dashboard_gui.py lines 559-560), listening to one sender. *)

NoThreads == [receive |-> 0, cleanup |-> 0]

NoHistory == [sweep_notified |-> [k \in AllKeys |-> 0], after_invalid |-> FALSE,
              evicted |-> {}, swept |-> FALSE, last |-> [k \in AllKeys |-> EmptyDict],
              tick_marked |-> {}, tick_notified |-> {}, sent |-> 0,
              superseded |-> NoThreads]

NoBudget == [datagrams |-> Unlimited, seconds |-> Unlimited]

Init ==
    /\ robots = <<>>
    /\ heap = [r \in {} |-> RobotData]
    /\ timeout_seconds = DefaultTimeoutSeconds
    /\ update_callbacks = <<"on_robot_update">>
    /\ running = TRUE
    /\ inputs \in {MainPayloads, NegativeIdPayloads}
    /\ rx = RxIdle
    /\ sw = SwSleep(FALSE)
    /\ gui = GuiIdle
    /\ port = DefaultPort
    /\ socket = Bound(DefaultPort)
    /\ main = MainLoop(DefaultPort, DefaultTimeoutSeconds)
    /\ snap_copy = <<>>
    /\ hist = NoHistory
    /\ budget = NoBudget

Receiver ==
    \/ \E p \in inputs : RxReceive(p)
    \/ RxContains
    \/ RxCreate
    \/ RxFetch
    \/ RxBasicInfo
    \/ RxLastUpdate
    \/ RxIsConnected
    \/ RxBlock
    \/ RxNotify
    \/ RxReturn

Sweeper ==
    \/ SwWake
    \/ SwNext
    \/ SwStale
    \/ SwMark
    \/ SwNotify
    \/ SwKeys
    \/ SwOld
    \/ SwDelete

Next == Receiver \/ Sweeper \/ Tick

Spec == Init /\ [][Next]_vars

\* The steps of the receive thread once recvfrom has returned.
ReceiverProgress ==
    \/ RxContains
    \/ RxCreate
    \/ RxFetch
    \/ RxBasicInfo
    \/ RxLastUpdate
    \/ RxIsConnected
    \/ RxBlock
    \/ RxNotify
    \/ RxReturn

\* Both threads are scheduled (the interpreter hands the GIL on every few
\* milliseconds) and time passes: the clock ticks again and again although it
\* cannot tick while a handler is running.
SpecFair == Spec /\ WF_vars(Sweeper) /\ WF_vars(ReceiverProgress) /\ SF_vars(Tick)

\* A sender whose datagrams carry a string where a section is expected.
\* {"robot_id": 1, "game": "PLAYING", "team_count": 3, "head": {"pitch": 1, "yaw": 2}}
WrongTypedGame ==
    [robot_id |-> 1, game |-> Scalar("PLAYING"), team_count |-> 3,
     head |-> [pitch |-> 1, yaw |-> 2]]

\* {"robot_id": 1, "game": {"state": "PLAYING", "score": 2}, "robot": {"pose": "left"}}
WrongTypedPose ==
    [robot_id |-> 1, game |-> [state |-> "PLAYING", score |-> 2],
     robot |-> [pose |-> Scalar("left")]]

TypedPayloads == {Object(WrongTypedGame), Object(WrongTypedPose), Object(GameObject(1))}

InitTyped ==
    /\ robots = <<>>
    /\ heap = [r \in {} |-> RobotData]
    /\ timeout_seconds = DefaultTimeoutSeconds
    /\ update_callbacks = <<"on_robot_update">>
    /\ running = TRUE
    /\ inputs = TypedPayloads
    /\ rx = RxIdle
    /\ sw = SwSleep(FALSE)
    /\ gui = GuiIdle
    /\ port = DefaultPort
    /\ socket = Bound(DefaultPort)
    /\ main = MainLoop(DefaultPort, DefaultTimeoutSeconds)
    /\ snap_copy = <<>>
    /\ hist = NoHistory
    /\ budget = NoBudget

SpecTyped == InitTyped /\ [][Next]_vars

\* The default specification with the GUI thread polling get_robots().
Gui == GuiGetRobots \/ GuiDone

GuiNext == Receiver \/ Sweeper \/ Tick \/ Gui

\* The sender of the GUI specification: one robot, full and partial datagrams.
GuiPayloads == {NotJson, Object(FullObject(1)), Object(GameObject(1))}

InitGui ==
    /\ robots = <<>>
    /\ heap = [r \in {} |-> RobotData]
    /\ timeout_seconds = DefaultTimeoutSeconds
    /\ update_callbacks = <<"on_robot_update">>
    /\ running = TRUE
    /\ inputs = GuiPayloads
    /\ rx = RxIdle
    /\ sw = SwSleep(FALSE)
    /\ gui = GuiIdle
    /\ port = DefaultPort
    /\ socket = Bound(DefaultPort)
    /\ main = MainLoop(DefaultPort, DefaultTimeoutSeconds)
    /\ snap_copy = <<>>
    /\ hist = NoHistory
    /\ budget = NoBudget

SpecGui == InitGui /\ [][GuiNext]_vars

\* The default specification with the GUI thread polling get_connected_robots().
GuiConnected == GuiConnectedBegin \/ GuiConnectedNext \/ GuiConnectedTest \/ GuiConnectedDone

ConnectedNext == Receiver \/ Sweeper \/ Tick \/ GuiConnected

SpecConnected == InitGui /\ [][ConnectedNext]_vars

-----------------------------------------------------------------------------
(* The life cycle: main.py builds the dashboard, RoboCupDashboard.__init__
   builds, observes and starts the core, main.py then configures it and enters
   run(); closing the window stops the core. *)

MaxCallbacks == 3

\* an insertion at the front of the list
PrependCallback(callbacks, callback) == <<callback>> \o callbacks

\* line 88: self.update_callbacks.append(callback)
AppendCallback(callbacks, callback) == Append(callbacks, callback)

\* add_update_callback: the GUI registers on_robot_update (dashboard_gui.py
\* line 560); a further caller registers an observer of its own.
AddUpdateCallback ==
    /\ main.pc = "constructed"
    /\ Len(update_callbacks) < MaxCallbacks
    /\ update_callbacks' =
          AppendCallback(update_callbacks,
                         IF update_callbacks = <<>> THEN "on_robot_update" ELSE "observer")
    /\ UNCHANGED <<robots, heap, rx, sw, gui, snap_copy, hist, budget, timeout_seconds,
                   running, inputs, port, socket, main>>

\* a flag that stop() leaves set
StopFlagKept == TRUE

\* line 120: self.running = False
StopFlag == FALSE

\* a socket that stop() leaves as it is
KeptOpen(sock) == sock

\* lines 122-124: close the socket if there is one, self.socket = None
Closed(sock) == NoSocket

\* start() (lines 90-116); the bind of line 99 succeeds or raises, and then
\* line 116 calls stop(), which finds no thread to join.
Start(bind_ok) ==
    /\ main.pc = "constructed"
    /\ update_callbacks # <<>>
    /\ ~running
    /\ IF bind_ok
       THEN /\ socket' = Bound(port)
            /\ running' = TRUE
            /\ rx' = RxIdle
            /\ sw' = SwSleep(TRUE)
            /\ main' = [main EXCEPT !.pc = "started"]
       ELSE /\ socket' = Closed(NewSocket)
            /\ running' = StopFlag
            /\ UNCHANGED <<rx, sw>>
            /\ main' = [main EXCEPT !.pc = "start_failed"]
    /\ UNCHANGED <<robots, heap, gui, snap_copy, hist, budget, timeout_seconds,
                   update_callbacks, inputs, port>>

\* main.py lines 76-78: port and timeout_seconds are assigned, then run()
MainConfigure ==
    /\ main.pc \in {"started", "start_failed"}
    /\ port' = main.args_port
    /\ timeout_seconds' = main.args_timeout
    /\ main' = [main EXCEPT !.pc = "mainloop"]
    /\ UNCHANGED <<robots, heap, rx, sw, gui, snap_copy, hist, budget, update_callbacks,
                   running, inputs, socket>>

\* the window is closed: run() calls stop(); line 120
StopBegin ==
    /\ main.pc = "mainloop"
    /\ gui.pc = "idle"
    /\ running' = StopFlag
    /\ main' = [main EXCEPT !.pc = "close"]
    /\ UNCHANGED <<robots, heap, rx, sw, gui, snap_copy, hist, budget, timeout_seconds,
                   update_callbacks, inputs, port, socket>>

\* lines 122-124
StopClose ==
    /\ main.pc = "close"
    /\ socket' = IF socket.open THEN Closed(socket) ELSE socket
    /\ main' = [main EXCEPT !.pc = "join_receive", !.waited = 0]
    /\ UNCHANGED <<robots, heap, rx, sw, gui, snap_copy, hist, budget, timeout_seconds,
                   update_callbacks, running, inputs, port>>

\* lines 126-127: join the receive thread if it is alive, for at most 2 s
JoinReceive ==
    /\ main.pc = "join_receive"
    /\ rx.pc \in {"unstarted", "exited"} \/ main.waited = join_timeout
    /\ main' = [main EXCEPT !.pc = "join_cleanup", !.waited = 0]
    /\ UNCHANGED <<robots, heap, rx, sw, gui, snap_copy, hist, budget, timeout_seconds,
                   update_callbacks, running, inputs, port, socket>>

\* lines 129-130: join the cleanup thread if it is alive, for at most 2 s
JoinCleanup ==
    /\ main.pc = "join_cleanup"
    /\ sw.pc \in {"unstarted", "exited"} \/ main.waited = join_timeout
    /\ main' = [main EXCEPT !.pc = "stopped", !.waited = 0]
    /\ UNCHANGED <<robots, heap, rx, sw, gui, snap_copy, hist, budget, timeout_seconds,
                   update_callbacks, running, inputs, port, socket>>

Main ==
    \/ AddUpdateCallback
    \/ \E bind_ok \in BOOLEAN : Start(bind_ok)
    \/ MainConfigure
    \/ StopBegin
    \/ StopClose
    \/ JoinReceive
    \/ JoinCleanup

\* line 136 finds running false, or recvfrom raises on the closed socket and
\* line 159 finds running false: the loop ends silently
RxExit ==
    /\ rx.pc = "recv"
    /\ ~running
    /\ rx' = [RxIdle EXCEPT !.pc = "exited"]
    /\ UNCHANGED <<robots, heap, sw, gui, snap_copy, hist, budget, env>>

\* lines 158-161: recvfrom raises an error other than socket.timeout while
\* running: "Socket error" is printed and the loop ends
RxSocketError ==
    /\ rx.pc = "recv"
    /\ running
    /\ socket.open
    /\ rx' = [RxIdle EXCEPT !.pc = "exited", !.outcome = "socket_error"]
    /\ UNCHANGED <<robots, heap, sw, gui, snap_copy, hist, budget, env>>

\* line 248 after time.sleep: running is false, the thread ends
SwExit ==
    /\ sw.pc = "sleep"
    /\ sw.slept
    /\ ~running
    /\ sw' = [SwSleep(FALSE) EXCEPT !.pc = "exited"]
    /\ UNCHANGED <<robots, heap, rx, gui, snap_copy, hist, budget, env>>

Exits == RxExit \/ RxSocketError \/ SwExit

LifeNext == Receiver \/ Sweeper \/ Tick \/ Main \/ Exits

\* The sender of the life-cycle specification.
LifePayloads == {NotJson, Object(GameObject(1))}

\* after self.dashboard_core = DashboardCore() (dashboard_gui.py line 559),
\* launched with the default port or with --port 9090
InitLife ==
    /\ robots = <<>>
    /\ heap = [r \in {} |-> RobotData]
    /\ timeout_seconds = DefaultTimeoutSeconds
    /\ update_callbacks = <<>>
    /\ running = FALSE
    /\ inputs = LifePayloads
    /\ rx = [RxIdle EXCEPT !.pc = "unstarted"]
    /\ sw = [SwSleep(FALSE) EXCEPT !.pc = "unstarted"]
    /\ gui = GuiIdle
    /\ port = DefaultPort
    /\ socket = NoSocket
    /\ main \in { [pc |-> "constructed", args_port |-> p,
                   args_timeout |-> DefaultTimeoutSeconds, waited |-> 0] :
                  p \in {DefaultPort, CustomPort} }
    /\ snap_copy = <<>>
    /\ hist = NoHistory
    /\ budget = NoBudget

SpecLife == InitLife /\ [][LifeNext]_vars

\* Shutdown: the dashboard is in run() with the core started on the default
\* port, and the window may be closed at any moment.
Stop == StopBegin \/ StopClose \/ JoinReceive \/ JoinCleanup

StopNext == Receiver \/ Sweeper \/ Tick \/ Stop \/ Exits

InitStop ==
    /\ robots = <<>>
    /\ heap = [r \in {} |-> RobotData]
    /\ timeout_seconds = DefaultTimeoutSeconds
    /\ update_callbacks = <<"on_robot_update">>
    /\ running = TRUE
    /\ inputs = LifePayloads
    /\ rx = RxIdle
    /\ sw = SwSleep(TRUE)
    /\ gui = GuiIdle
    /\ port = DefaultPort
    /\ socket = Bound(DefaultPort)
    /\ main = MainLoop(DefaultPort, DefaultTimeoutSeconds)
    /\ snap_copy = <<>>
    /\ hist = NoHistory
    /\ budget = NoBudget

SpecStop == InitStop /\ [][StopNext]_vars

\* The threads are scheduled and time passes; once stop() is entered the main
\* thread runs it to its end.  Nothing obliges the user to close the window
\* or the socket to fail.
SpecStopFair ==
    /\ SpecStop
    /\ WF_vars(Sweeper) /\ WF_vars(ReceiverProgress) /\ SF_vars(Tick)
    /\ WF_vars(RxExit) /\ WF_vars(SwExit)
    /\ WF_vars(StopClose) /\ WF_vars(JoinReceive) /\ WF_vars(JoinCleanup)

\* stop() with a client that goes on calling get_robots(), before and after.
StoppedNext == StopNext \/ Gui

SpecStopped == InitStop /\ [][StoppedNext]_vars

-----------------------------------------------------------------------------
(* Restart: a caller of DashboardCore that calls start() again after stop()
   has returned.  start() overwrites self.receive_thread and
   self.cleanup_thread (lines 105, 109); a thread of the previous start that
   is still alive is no longer joined by anybody and is followed here only as
   alive or ended. *)

Alive(thread) == thread.pc \notin {"unstarted", "exited"}

\* the threads of the previous start that the new start() leaves behind
Superseded(old) ==
    [receive |-> IF Alive(rx) THEN 1 ELSE old.receive,
     cleanup |-> IF Alive(sw) THEN 1 ELSE old.cleanup]

\* start() after stop() (lines 90-116): running is false, so line 92 does not
\* return; a failed bind ends in stop() again and leaves the core stopped
StartAgain(bind_ok) ==
    /\ main.pc = "stopped"
    /\ ~running
    /\ IF bind_ok
       THEN /\ socket' = Bound(port)
            /\ running' = TRUE
            /\ hist' = [hist EXCEPT !.superseded = Superseded(@)]
            /\ rx' = RxIdle
            /\ sw' = SwSleep(TRUE)
            /\ main' = [main EXCEPT !.pc = "mainloop"]
       ELSE /\ socket' = Closed(NewSocket)
            /\ running' = StopFlag
            /\ UNCHANGED <<hist, rx, sw, main>>
    /\ heap' = Reclaim(heap, Roots(robots, rx', sw', gui))
    /\ UNCHANGED <<robots, gui, snap_copy, budget, timeout_seconds, update_callbacks,
                   inputs, port>>

\* a superseded thread ends: it finds running false (lines 136, 248), or, the
\* receive thread, its recvfrom fails on the closed socket (lines 159-162)
SupersededExit(kind) ==
    /\ hist.superseded[kind] > 0
    /\ ~running \/ kind = "receive"
    /\ hist' = [hist EXCEPT !.superseded[kind] = 0]
    /\ UNCHANGED <<robots, heap, rx, sw, gui, snap_copy, budget, env>>

Restart ==
    \/ \E bind_ok \in BOOLEAN : StartAgain(bind_ok)
    \/ \E kind \in {"receive", "cleanup"} : SupersededExit(kind)

RestartNext == StopNext \/ Restart

SpecRestart == InitStop /\ [][RestartNext]_vars

\* The threads running _receive_data and _cleanup_expired_robots.
ActiveReceivers == (IF Alive(rx) THEN 1 ELSE 0) + hist.superseded.receive

ActiveSweepers == (IF Alive(sw) THEN 1 ELSE 0) + hist.superseded.cleanup

-----------------------------------------------------------------------------
(* Repeated calls: start() while the core is running and stop() while it is
   stopped, by a caller of DashboardCore during the life cycle. *)

\* a start() without the test of line 92: a new socket and new threads
StartUnguarded ==
    /\ main.pc = "mainloop"
    /\ running
    /\ socket' = Bound(port)
    /\ rx' = RxIdle
    /\ sw' = SwSleep(TRUE)
    /\ main' = [main EXCEPT !.pc = "start_returned"]
    /\ heap' = Reclaim(heap, Roots(robots, rx', sw', gui))
    /\ UNCHANGED <<robots, gui, snap_copy, hist, budget, timeout_seconds, update_callbacks,
                   running, inputs, port>>

\* start() while running: lines 92-93, `if self.running: return`
StartRunning ==
    /\ main.pc = "mainloop"
    /\ running
    /\ main' = [main EXCEPT !.pc = "start_returned"]
    /\ UNCHANGED <<robots, heap, rx, sw, gui, snap_copy, hist, budget, timeout_seconds,
                   update_callbacks, running, inputs, port, socket>>

\* the caller goes on
StartReturned ==
    /\ main.pc = "start_returned"
    /\ main' = [main EXCEPT !.pc = "mainloop"]
    /\ UNCHANGED <<robots, heap, rx, sw, gui, snap_copy, hist, budget, timeout_seconds,
                   update_callbacks, running, inputs, port, socket>>

\* stop() on a core that was never started or is stopped already: line 120;
\* lines 122-130 follow as in any stop()
StopAgain ==
    /\ main.pc \in {"constructed", "stopped"}
    /\ ~running
    /\ running' = StopFlag
    /\ main' = [main EXCEPT !.pc = "close"]
    /\ UNCHANGED <<robots, heap, rx, sw, gui, snap_copy, hist, budget, timeout_seconds,
                   update_callbacks, inputs, port, socket>>

Repeat == StartRunning \/ StartReturned \/ StopAgain

RepeatNext == LifeNext \/ Repeat

SpecRepeat == InitLife /\ [][RepeatNext]_vars

-----------------------------------------------------------------------------
(* Receive timeouts: the socket has a timeout of one second (line 100), and a
   recvfrom that returns nothing in that time raises socket.timeout. *)

\* lines 138 and 157: recvfrom raises socket.timeout
RxTimeout ==
    /\ rx.pc = "recv"
    /\ rx' = [RxIdle EXCEPT !.pc = "timed_out"]
    /\ UNCHANGED <<robots, heap, sw, gui, snap_copy, hist, budget, env>>

\* a timeout handled like any other socket error: the loop ends (line 162)
RxAgainBreaks ==
    /\ rx.pc = "timed_out"
    /\ rx' = [RxIdle EXCEPT !.pc = "exited"]
    /\ UNCHANGED <<robots, heap, sw, gui, snap_copy, hist, budget, env>>

\* line 158, `continue`, and the test of line 136
RxAgain ==
    /\ rx.pc = "timed_out"
    /\ rx' = IF running THEN RxIdle ELSE [RxIdle EXCEPT !.pc = "exited"]
    /\ UNCHANGED <<robots, heap, sw, gui, snap_copy, hist, budget, env>>

Timeouts == RxTimeout \/ RxAgain

TimeoutNext == StopNext \/ Timeouts

SpecTimeout == InitStop /\ [][TimeoutNext]_vars

-----------------------------------------------------------------------------
(* A hostile sender: payloads that are no UTF-8, no JSON, no object, carry no
   usable id or a wrong-typed section, among valid datagrams. *)

HostilePayloads ==
    InvalidPayloads \cup
    { UnhashableId, Object(AnonymousObject), Object(WrongTypedGame), Object(GameObject(1)) }

InitHostile ==
    /\ robots = <<>>
    /\ heap = [r \in {} |-> RobotData]
    /\ timeout_seconds = DefaultTimeoutSeconds
    /\ update_callbacks = <<"on_robot_update">>
    /\ running = TRUE
    /\ inputs = HostilePayloads
    /\ rx = RxIdle
    /\ sw = SwSleep(TRUE)
    /\ gui = GuiIdle
    /\ port = DefaultPort
    /\ socket = Bound(DefaultPort)
    /\ main = MainLoop(DefaultPort, DefaultTimeoutSeconds)
    /\ snap_copy = <<>>
    /\ hist = NoHistory
    /\ budget = NoBudget

SpecHostile == InitHostile /\ [][StopNext]_vars

SpecHostileFair ==
    /\ SpecHostile
    /\ WF_vars(Sweeper) /\ WF_vars(ReceiverProgress) /\ SF_vars(Tick)
    /\ WF_vars(RxExit) /\ WF_vars(SwExit)
    /\ WF_vars(StopClose) /\ WF_vars(JoinReceive) /\ WF_vars(JoinCleanup)

-----------------------------------------------------------------------------
(* Every public operation of DashboardCore: the life cycle with a client
   thread that polls get_robots() and get_connected_robots() and calls
   send_command_to_robot(). *)

\* the datagrams the sender emits during the run
MaxOperationsDatagrams == 1

Command == SendCommandToRobot \/ GuiCommandDone

OperationsNext == Receiver \/ Sweeper \/ Tick \/ Main \/ Exits \/ Gui \/ GuiConnected \/ Command

InitOperations ==
    /\ robots = <<>>
    /\ heap = [r \in {} |-> RobotData]
    /\ timeout_seconds = DefaultTimeoutSeconds
    /\ update_callbacks = <<>>
    /\ running = FALSE
    /\ inputs = {Object(GameObject(1))}
    /\ rx = [RxIdle EXCEPT !.pc = "unstarted"]
    /\ sw = [SwSleep(FALSE) EXCEPT !.pc = "unstarted"]
    /\ gui = GuiIdle
    /\ port = DefaultPort
    /\ socket = NoSocket
    /\ main = [pc |-> "constructed", args_port |-> DefaultPort,
               args_timeout |-> DefaultTimeoutSeconds, waited |-> 0]
    /\ snap_copy = <<>>
    /\ hist = NoHistory
    /\ budget = [datagrams |-> AtMost(MaxOperationsDatagrams), seconds |-> Unlimited]

SpecOperations == InitOperations /\ [][OperationsNext]_vars

-----------------------------------------------------------------------------
(* A long connect-timeout *)

\* The dashboard launched with --timeout 31 (main.py lines 37-38 accept any
\* integer): a connect-timeout above the 30 s after which records are removed.
LongTimeoutSeconds == very_old_delta + 1

InitLongTimeout ==
    /\ robots = <<>>
    /\ heap = [r \in {} |-> RobotData]
    /\ timeout_seconds = LongTimeoutSeconds
    /\ update_callbacks = <<"on_robot_update">>
    /\ running = TRUE
    /\ inputs = LifePayloads
    /\ rx = RxIdle
    /\ sw = SwSleep(FALSE)
    /\ gui = GuiIdle
    /\ port = DefaultPort
    /\ socket = Bound(DefaultPort)
    /\ main = MainLoop(DefaultPort, LongTimeoutSeconds)
    /\ snap_copy = <<>>
    /\ hist = NoHistory
    /\ budget = NoBudget

SpecLongTimeout == InitLongTimeout /\ [][Next]_vars

-----------------------------------------------------------------------------
(* The fleet scenario (spec section 8): datagrams for ids 1 and 2 arrive while
   the sweeper is about to evict id 3, last heard of more than 30 s ago. *)

MaxFleetDatagrams == 3

MaxFleetSeconds == 2

FleetPayloads ==
    { Object(GameObject(1)), Object(FullObject(1)),
      Object(GameObject(2)), Object(FullObject(2)) }

RECURSIVE UpdateBlocks(_, _, _)
UpdateBlocks(i, r, data) ==
    IF i > Len(Blocks) THEN r ELSE UpdateBlocks(i + 1, UpdateBlock(Blocks[i], r, data), data)

\* The record lines 178-234 leave for object `data`, `age` seconds later, once
\* the sweeper has marked it disconnected.
StaleRecord(data, age) ==
    [SetDisconnected(UpdateBlocks(1, UpdateBasicInfo(RobotData, data.robot_id, data), data))
        EXCEPT !.age = age]

InitFleet ==
    /\ timeout_seconds = DefaultTimeoutSeconds
    /\ update_callbacks = <<"on_robot_update">>
    /\ running = TRUE
    /\ inputs = FleetPayloads
    /\ robots = <<[key |-> 3, ref |-> 1]>>
    /\ heap = [r \in {1} |-> StaleRecord(FullObject(3), very_old_delta + 1)]
    /\ rx = RxIdle
    /\ sw = SwSleep(TRUE)
    /\ gui = GuiIdle
    /\ port = DefaultPort
    /\ socket = Bound(DefaultPort)
    /\ main = MainLoop(DefaultPort, DefaultTimeoutSeconds)
    /\ snap_copy = <<>>
    /\ hist = [ sweep_notified |-> [k \in {1, 2, 3} |-> IF k = 3 THEN 2 ELSE 0],
                after_invalid |-> FALSE, evicted |-> {}, swept |-> TRUE,
                last |-> [k \in {1, 2, 3} |-> IF k = 3 THEN FullObject(3) ELSE EmptyDict],
                tick_marked |-> {}, tick_notified |-> {}, sent |-> 0,
                superseded |-> NoThreads ]
    /\ budget = [datagrams |-> AtMost(MaxFleetDatagrams), seconds |-> AtMost(MaxFleetSeconds)]

SpecFleet == InitFleet /\ [][Next]_vars

-----------------------------------------------------------------------------
(* Properties *)

\* The handler has returned to _receive_data for the payload in rx.payload.
Returned == rx.pc = "done"

\* A JSON object whose robot_id is an integer >= 0.
HasUsableId(p) == p.kind = "json_object" /\ IdOf(p) >= 0

\* A JSON object whose robot_id is missing or negative.
MissingOrNegativeId(p) ==
    p.kind = "json_object" /\ ("robot_id" \notin DOMAIN p.obj \/ p.obj.robot_id < 0)

\* A step of the receive thread.
RxStep == rx' # rx

\* C1: once _process_robot_data has finished for a datagram with id >= 0, the
\* store contains the id and its record is connected and was updated just now.
C1_IngestedIsConnected ==
    (Returned /\ HasUsableId(rx.payload)) =>
        /\ Has(robots, rx.robot_id)
        /\ Stored(rx.robot_id).is_connected
        /\ Stored(rx.robot_id).age = 0

\* C2: processing a datagram whose robot_id is missing or negative changes
\* neither the set of stored ids nor any record.
C2_BadIdChangesNothing ==
    [][(RxStep /\ (MissingOrNegativeId(rx.payload) \/ MissingOrNegativeId(rx'.payload)))
        => UNCHANGED <<robots, heap>>]_vars

\* C3: for an id without further traffic the sweeper notifies the observers
\* once, on the tick that flips it, and not again on later ticks.
C3_OneNotificationPerFlip ==
    \A k \in AllKeys : hist.sweep_notified[k] <= 1

-----------------------------------------------------------------------------
(* The wire format (spec section 6): where each record field comes from *)

Path ==
    [ team_id |-> <<"team_id">>, timestamp |-> <<"timestamp">>,
      team_count |-> <<"team_count">>,
      game_state |-> <<"game", "state">>,
      kickoff_side |-> <<"game", "kickoff_side">>,
      score |-> <<"game", "score">>,
      pose_x |-> <<"robot", "pose", "x">>,
      pose_y |-> <<"robot", "pose", "y">>,
      pose_theta |-> <<"robot", "pose", "theta">>,
      ball_detected |-> <<"robot", "ball", "detected">>,
      ball_x |-> <<"robot", "ball", "x">>,
      ball_y |-> <<"robot", "ball", "y">>,
      ball_range |-> <<"robot", "ball", "range">>,
      role |-> <<"collaboration", "role">>,
      dynamic_role |-> <<"collaboration", "dynamic_role">>,
      has_possession |-> <<"collaboration", "has_possession">>,
      possession_player |-> <<"collaboration", "possession_player">>,
      ball_cost |-> <<"collaboration", "ball_cost">>,
      decision |-> <<"behavior", "decision">>,
      ball_location_known |-> <<"behavior", "ball_location_known">>,
      avg_loop_time |-> <<"performance", "avg_loop_time">>,
      max_loop_time |-> <<"performance", "max_loop_time">>,
      head_pitch |-> <<"head", "pitch">>,
      head_yaw |-> <<"head", "yaw">>,
      recovery_state |-> <<"recovery", "state">>,
      recovery_available |-> <<"recovery", "available">> ]

Sections ==
    { <<"game">>, <<"robot", "pose">>, <<"robot", "ball">>, <<"collaboration">>,
      <<"behavior">>, <<"performance">>, <<"head">>, <<"recovery">> }

RECURSIVE Present(_, _)
Present(o, path) ==
    path = <<>> \/ (Head(path) \in DOMAIN o /\ Present(o[Head(path)], Tail(path)))

RECURSIVE ValueAt(_, _)
ValueAt(o, path) == IF path = <<>> THEN o ELSE ValueAt(o[Head(path)], Tail(path))

IsPrefix(s, t) == Len(s) <= Len(t) /\ SubSeq(t, 1, Len(s)) = s

FieldsOf(section) == {f \in DOMAIN Path : IsPrefix(section, Path[f])}

\* The documented default of a field is the one the RobotData dataclass declares.
DocumentedDefault(f) == RobotData[f]

\* What the record must hold for field f after object o was ingested.
Decoded(o, f) == IF Present(o, Path[f]) THEN ValueAt(o, Path[f]) ELSE DocumentedDefault(f)

DecodedName(o) == IF "robot_name" \in DOMAIN o THEN o.robot_name
                  ELSE "robot" \o ToString(o.robot_id)

\* The handler ran to its end for the payload in rx.payload.
Updated == Returned /\ rx.outcome = "updated"

\* C5: when a datagram for an already stored id omits a section, the fields of
\* that section keep the values the record had before.
C5_OmittedSectionKept ==
    (Updated /\ rx.existed) =>
        \A section \in Sections :
            ~Present(rx.payload.obj, section) =>
                \A f \in FieldsOf(section) : heap[rx.robot][f] = rx.before[f]

C7_FirstSeenDefaults ==
    (Updated /\ rx.created) =>
        /\ Has(robots, rx.robot_id)
        /\ Stored(rx.robot_id).robot_id = rx.robot_id
        /\ Stored(rx.robot_id).robot_name = DecodedName(rx.payload.obj)
        /\ \A f \in DOMAIN Path : Stored(rx.robot_id)[f] = Decoded(rx.payload.obj, f)
        /\ Stored(rx.robot_id).is_connected

\* {"robot_id":1,"game":{"state":"PLAYING","score":2}} ingested for the unseen id 1
C7_Witness ==
    /\ Updated /\ rx.created
    /\ rx.payload = Object(GameObject(1))
    /\ Stored(1).game_state = "PLAYING" /\ Stored(1).score = 2
    /\ Stored(1).pose_x = 0 /\ Stored(1).pose_y = 0 /\ Stored(1).pose_theta = 0
    /\ Stored(1).possession_player = -1
    /\ Stored(1).is_connected

\* C9: after get_robots() has returned, nothing changes the records reachable
\* through the returned dict: each still holds the values it had on return.
C9_SnapshotImmutable ==
    gui.pc = "render" =>
        \A i \in DOMAIN gui.robots : heap[gui.robots[i].ref] = snap_copy[i]

\* Record r, stored under key k, holds the decoded values of one single datagram.
FromOneDatagram(k, r) ==
    \E p \in inputs :
        /\ p.kind = "json_object" /\ "robot_id" \in DOMAIN p.obj /\ p.obj.robot_id = k
        /\ r.robot_id = k
        /\ r.robot_name = DecodedName(p.obj)
        /\ \A f \in DOMAIN Path : r[f] = Decoded(p.obj, f)

\* C10: a get_robots() caller never sees a record that mixes the values of a
\* new datagram with previous or default-initialised values.
C10_UpsertAtomic ==
    gui.pc = "render" =>
        \A i \in DOMAIN gui.robots : FromOneDatagram(gui.robots[i].key, snap_copy[i])

\* The fleet scenario is over: every datagram is ingested, the last sweep tick
\* has ended and no further one is due; ids 1 and 2 have both been heard.
FleetFinal ==
    /\ budget.datagrams = AtMost(0) /\ budget.seconds = AtMost(0)
    /\ rx.pc = "recv" /\ sw.pc = "sleep" /\ ~sw.slept
    /\ \A k \in {1, 2} : "robot_id" \in DOMAIN hist.last[k]

\* C8: however the ingestion of ids 1 and 2 interleaves with the sweep ticks
\* that evict the very stale id 3, the final store holds exactly 1 and 2, each
\* with the values of its last datagram, and 3 is gone.
C8_FleetSurvivesEviction ==
    FleetFinal =>
        /\ Keys(robots) = {1, 2}
        /\ \A k \in {1, 2} :
              /\ Stored(k).robot_id = k
              /\ Stored(k).robot_name = DecodedName(hist.last[k])
              /\ \A f \in DOMAIN Path : Stored(k)[f] = Decoded(hist.last[k], f)

\* C11: get_connected_robots() always completes, and what it returns holds no
\* record whose is_connected is false.
C11_ConnectedSnapshot ==
    gui.pc = "connected_done" =>
        /\ gui.outcome = "returned"
        /\ \A i \in DOMAIN gui.robots : heap[gui.robots[i].ref].is_connected

\* A section of the object is present but is no object.
WrongTyped(o) ==
    \E b \in {Blocks[i] : i \in DOMAIN Blocks} : BlockRaises(b, o)

\* C18: a datagram with a present but wrong-typed section does not fail: the
\* handler runs to its end and notifies the observers, the fields of the
\* wrong-typed section hold their defaults and the other fields the values of
\* the datagram.
C18_WrongTypedFallsBack ==
    (Returned /\ rx.payload.kind = "json_object" /\ WrongTyped(rx.payload.obj)) =>
        /\ rx.outcome = "updated"
        /\ rx.calls = Len(update_callbacks)
        /\ \A f \in DOMAIN Path : heap[rx.robot][f] = Decoded(rx.payload.obj, f)

\* No handler is in progress and the sweep of the current second has ended.
Quiescent == rx.pc = "recv" /\ sw.pc = "sleep" /\ ~sw.slept /\ hist.swept

\* C19: each stored record's is_connected equals (now - last_update <=
\* connect-timeout).  Stated for the states in which the cleanup thread is up
\* to date, where the polling period cannot explain a difference.
C19_ConnectedIffFresh ==
    Quiescent =>
        \A i \in DOMAIN robots :
            heap[robots[i].ref].is_connected <=> (heap[robots[i].ref].age <= timeout_seconds)

\* C20: whatever connect-timeout is configured, a record old enough to be
\* removed is old enough to be marked disconnected, and no record is removed
\* from the store while its is_connected is true.
C20_EvictedOnlyWhenDisconnected ==
    [][\A k \in AllKeys :
            (Has(robots, k) /\ ~Has(robots', k)) => ~Stored(k).is_connected]_vars

-----------------------------------------------------------------------------
(* Observers and the life cycle *)

\* The observers of a log, in registration order, none left out.
InOrder(called) == called = [i \in 1..Len(called) |-> i]

Complete(called) == InOrder(called) /\ Len(called) = Len(update_callbacks)

\* C12: when an observer raises during a notification, the observers
\* registered after it are still invoked, the notification changes neither the
\* store nor a record, and the notifying loop goes on: the receive thread
\* returns to recvfrom and the cleanup thread to its eviction scan.
C12_ObserverIsolation ==
    /\ []((rx.pc = "done" /\ rx.called # <<>>)
            => (Complete(rx.called) /\ rx.outcome = "updated"))
    /\ []((sw.pc = "keys" /\ sw.called # <<>>) => Complete(sw.called))
    /\ [][(rx.pc = "notify" /\ rx' # rx)
            => UNCHANGED <<robots, heap>> /\ rx'.pc \in {"notify", "done"}]_vars
    /\ [][(sw.pc = "notify" /\ sw' # sw)
            => UNCHANGED <<robots, heap>> /\ sw'.pc \in {"notify", "keys"}]_vars
    /\ [][(rx.pc = "done" /\ rx' # rx) => rx'.pc = "recv"]_vars

\* an observer raised and a later one was called, in the receive thread and in the cleanup thread
C12_Witness ==
    /\ Updated /\ Complete(rx.called)
    /\ \E i \in rx.raised : i < Len(update_callbacks)
    /\ sw.pc = "keys" /\ Complete(sw.called)
    /\ \E i \in sw.raised : i < Len(update_callbacks)

\* C13: add_update_callback only appends; every notification calls the
\* registered observers in registration order, in the notifying thread, and
\* has called all of them before the receive thread returns for the next
\* datagram or the cleanup thread turns to the next expired record.
C13_RegistrationOrder ==
    /\ [][update_callbacks' # update_callbacks
            => \E callback \in {"on_robot_update", "observer"} :
                  update_callbacks' = Append(update_callbacks, callback)]_vars
    /\ [](InOrder(rx.called) /\ InOrder(sw.called))
    /\ [][(rx.pc = "notify" /\ rx' # rx)
            => /\ rx'.called = Append(rx.called, rx.cb)
               /\ rx'.pc = "done" <=> Len(rx'.called) = Len(update_callbacks)]_vars
    /\ [][(sw.pc = "notify" /\ sw' # sw /\ (sw'.pc = "keys" \/ sw'.n # sw.n))
            => Len(sw'.called) = Len(update_callbacks)]_vars

\* three observers were registered and a notification has called them one after the other
C13_Witness ==
    /\ Len(update_callbacks) = MaxCallbacks
    /\ rx.pc = "done" /\ rx.called = [i \in 1..MaxCallbacks |-> i]

\* C14: whenever the core is running under the launcher's configuration, its
\* socket is bound to the port the launcher configured.
C14_ListensOnConfiguredPort ==
    (running /\ main.pc = "mainloop") =>
        /\ port = main.args_port
        /\ socket = Bound(main.args_port)

\* C15: a start() whose bind fails leaves running false and the socket None,
\* starts neither thread and changes neither the store nor the observer list.
C15_BindFailureLeavesStopped ==
    /\ [](rx.pc = "unstarted" =>
            /\ ~running
            /\ socket = NoSocket
            /\ sw.pc = "unstarted")
    /\ [][(main.pc = "constructed" /\ main'.pc = "start_failed")
            => UNCHANGED <<robots, heap, update_callbacks>>]_vars
    /\ [][main.pc = "start_failed" => UNCHANGED <<rx, sw, running, socket>>]_vars

\* the bind has failed
C15_Witness == main.pc = "start_failed" /\ ~running /\ socket = NoSocket

\* C16: after a socket error has ended the receive loop, the core does not go on
\* reporting that it is running.
C16_SocketErrorSurfaced == (rx.pc = "exited" /\ rx.outcome = "socket_error") => ~running

\* stop() has closed the socket (lines 120-124 are done)
StopClosed == main.pc \in {"join_receive", "join_cleanup", "stopped"}

ThreadsGone == rx.pc \in {"unstarted", "exited"} /\ sw.pc \in {"unstarted", "exited"}

-----------------------------------------------------------------------------
(* The sweep tick *)

\* The sweeper removes key k in this step.
Removes(k) == sw.pc = "delete" /\ Has(robots, k) /\ ~Has(robots', k)

\* C21: removing a record emits no notification: when the cleanup thread
\* removes a record that it had already reported as disconnected on an earlier
\* tick, it has not invoked the observers for that record in the tick that
\* removes it.
C21_EvictionSilent ==
    [][\A k \in AllKeys :
            (Removes(k) /\ k \in hist.tick_notified) => hist.sweep_notified[k] <= 1]_vars

\* A step of one of the operations the callers of DashboardCore invoke:
\* add_update_callback, start and stop, get_robots, get_connected_robots and
\* send_command_to_robot.
OperationStep ==
    \/ update_callbacks' # update_callbacks
    \/ main'.pc # main.pc
    \/ gui' # gui

\* C22: a key enters the store only when the receive thread creates its
\* record and leaves it only when the cleanup thread deletes it; the other
\* operations change neither the stored ids nor a field of a stored record, and
\* send_command_to_robot sends nothing and returns True.
C22_OnlyIngestionAndSweepWrite ==
    /\ [][\A k \in AllKeys :
              /\ (~Has(robots, k) /\ Has(robots', k)) => (rx.pc = "create" /\ rx.robot_id = k)
              /\ (Has(robots, k) /\ ~Has(robots', k)) => (sw.pc = "delete" /\ sw.keys[sw.k] = k)]_vars
    /\ [][OperationStep =>
              /\ robots' = robots
              /\ \A i \in DOMAIN robots : heap'[robots[i].ref] = heap[robots[i].ref]]_vars
    /\ [](hist.sent = 0 /\ (gui.pc = "command_done" => gui.outcome = "True"))

\* get_robots() has returned a stored record to a caller after stop()
C22_Witness ==
    /\ main.pc = "stopped" /\ Len(update_callbacks) > 1
    /\ gui.pc = "render" /\ gui.robots # <<>> /\ gui.robots = robots

-----------------------------------------------------------------------------
(* Notification and the races between the two threads *)

\* C23: a successfully ingested datagram makes exactly one call of every
\* observer, issued when the update is complete: the record handed to the
\* observer holds every value of the datagram and is connected; a dropped
\* datagram makes no call.
C23_NotifiedAfterUpdate ==
    /\ rx.pc = "notify" =>
          /\ heap[rx.robot].is_connected
          /\ heap[rx.robot].robot_id = rx.robot_id
          /\ heap[rx.robot].robot_name = DecodedName(rx.payload.obj)
          /\ \A f \in DOMAIN Path : heap[rx.robot][f] = Decoded(rx.payload.obj, f)
    /\ Updated => rx.calls = Len(update_callbacks)
    /\ (Returned /\ rx.outcome # "updated") => rx.calls = 0

\* The cleanup thread reaches time.sleep in this step: the tick ends.
TickEnds == sw.pc # "sleep" /\ sw'.pc = "sleep"

\* C24: a sweep tick completes both of its phases although a previously unseen
\* id is ingested meanwhile: when the tick ends, every record it marked
\* disconnected has been notified and no record older than the evict-timeout
\* is left in the store.
C24_TickCompletes ==
    [][TickEnds =>
          /\ update_callbacks # <<>> => hist.tick_marked \subseteq hist.tick_notified
          /\ \A i \in DOMAIN robots' : ~IsVeryOld(heap'[robots'[i].ref])]_vars

\* _process_robot_data has finished for a datagram of id k that is not yet
\* older than the connect-timeout, and k's record is connected.
Refreshed(k) ==
    /\ rx.pc \in {"done", "recv"}
    /\ Has(robots, k)
    /\ Stored(k).is_connected
    /\ Stored(k).age <= timeout_seconds

\* C25: a refresh is never undone by a sweep that decided before it: no step
\* of the cleanup thread clears the flag of, or deletes, a record whose last
\* datagram is not older than the connect-timeout.
C25_RefreshNotUndone ==
    [][\A k \in AllKeys :
            (Refreshed(k) /\ sw' # sw) =>
                (Has(robots', k) /\ heap'[Lookup(robots', k)].is_connected)]_vars

\* The receive thread has inserted the record of the unseen id k (line 173) and
\* has not yet reached line 183.
BeingCreated(k, d, r) ==
    /\ r.created /\ r.robot_id = k
    /\ r.pc \in {"fetch", "basic", "last_update", "is_connected"}
    /\ Has(d, k) /\ (r.robot = NoRef \/ Lookup(d, k) = r.robot)

\* The life-cycle state of id k for store d, heap h and receive thread r; an id
\* whose first datagram is still being stored counts as absent.
Life(k, d, h, r) ==
    IF ~Has(d, k) \/ BeingCreated(k, d, r) THEN "Absent"
    ELSE IF h[Lookup(d, k)].is_connected THEN "Connected" ELSE "Disconnected"

\* C26: an id is absent, connected or disconnected, and changes state only
\* from absent or disconnected to connected, by a datagram and on the same
\* record, from connected to disconnected, by the cleanup thread when the
\* record is stale, and from disconnected to absent, by the cleanup thread when
\* it is very stale.
C26_Lifecycle ==
    [][\A k \in AllKeys :
          LET before == Life(k, robots, heap, rx)
              after == Life(k, robots', heap', rx')
          IN before # after =>
                \/ before = "Absent" /\ after = "Connected" /\ rx' # rx
                \/ /\ before = "Disconnected" /\ after = "Connected" /\ rx' # rx
                   /\ Lookup(robots', k) = Lookup(robots, k)
                \/ /\ before = "Connected" /\ after = "Disconnected" /\ sw' # sw
                   /\ IsExpired(Stored(k))
                \/ /\ before = "Disconnected" /\ after = "Absent" /\ sw' # sw
                   /\ IsVeryOld(Stored(k))]_vars

-----------------------------------------------------------------------------
(* Identifiers *)

\* C27: every key of the store is an integer >= 0 and the record under key k
\* has robot_id = k (once its first datagram has set it); -1 is never a key,
\* and a record's robot_id never changes once set.
C27_KeysAreIds ==
    /\ [](\A i \in DOMAIN robots :
              /\ robots[i].key >= 0
              /\ ~BeingCreated(robots[i].key, robots, rx)
                    => heap[robots[i].ref].robot_id = robots[i].key)
    /\ [][\A r \in DOMAIN heap \cap DOMAIN heap' :
              heap[r].robot_id # -1 => heap'[r].robot_id = heap[r].robot_id]_vars

-----------------------------------------------------------------------------
(* The receive loop *)

\* The receive thread is handling a datagram.
Handling == rx.pc \notin {"unstarted", "recv", "exited"}

\* C28: no received payload ends the receive loop: whatever recvfrom returned,
\* the handler does not leave the loop and does not change running, it returns
\* to recvfrom, and with the thread scheduled it does so eventually.
C28_PayloadsNeverEndLoop ==
    /\ [][(rx' # rx /\ (Handling \/ rx'.payload # NoPayload))
            => (rx'.pc # "exited" /\ running' = running)]_vars
    /\ [][(rx.pc = "done" /\ rx' # rx) => rx' = RxIdle]_vars
    /\ Handling ~> (rx.pc = "recv")

\* a payload with an unusable id is dropped after another dropped payload, and the core is running
C28_Witness ==
    /\ rx.pc = "done" /\ rx.payload = UnhashableId /\ rx.outcome = "exception"
    /\ hist.after_invalid /\ running

\* C29: a receive timeout is no error: it changes no record and calls no
\* observer, and the loop goes on to another recvfrom when running is still
\* true and ends when it is false.
C29_TimeoutIsNoError ==
    /\ [][(rx.pc = "recv" /\ rx'.pc = "timed_out")
            => UNCHANGED <<robots, heap, running, socket>>]_vars
    /\ [](rx.pc = "timed_out" => (rx.calls = 0 /\ rx.called = <<>> /\ rx.outcome = "none"))
    /\ [][(rx.pc = "timed_out" /\ rx' # rx)
            => /\ UNCHANGED <<robots, heap, running, socket>>
               /\ rx' = IF running THEN RxIdle ELSE [RxIdle EXCEPT !.pc = "exited"]]_vars

\* recvfrom has timed out with a record in the store and the core running
C29_Witness == rx.pc = "timed_out" /\ running /\ robots # <<>>

\* C30: over any sequence of start() and stop() calls, also when stop() has
\* returned from its bounded join with a thread still alive and start() is
\* called again, at most one receive loop and at most one sweeper are active.
C30_OneLoopEach == ActiveReceivers <= 1 /\ ActiveSweepers <= 1

-----------------------------------------------------------------------------
(* Repeated start() and stop() *)

\* The core is stopped: running is false and there is no socket.
Stopped == ~running /\ socket = NoSocket

\* C31: start() while running creates no socket and no thread and changes
\* nothing; stop() on a core that is stopped or was never started leaves it
\* stopped, with the store, the threads and the observers as they were.
C31_RepeatedCallsChangeNothing ==
    /\ [][(running /\ main.pc = "mainloop" /\ main'.pc = "start_returned")
            => UNCHANGED <<robots, heap, rx, sw, running, socket, update_callbacks,
                           port, timeout_seconds>>]_vars
    /\ [][(main.pc = "start_returned" /\ main' # main)
            => /\ main'.pc = "mainloop"
               /\ UNCHANGED <<robots, heap, rx, sw, running, socket, update_callbacks>>]_vars
    /\ [][(Stopped /\ main'.pc # main.pc
                   /\ main'.pc \in {"close", "join_receive", "join_cleanup", "stopped"})
            => /\ ~running' /\ socket' = NoSocket
               /\ UNCHANGED <<robots, heap, rx, sw, update_callbacks>>]_vars

\* stop() has been called again on a stopped core that holds a record
C31_Witness == main.pc = "close" /\ Stopped /\ robots # <<>>

-----------------------------------------------------------------------------
(* The cleanup thread's notifications and its loop *)

\* The cleanup thread calls an observer in this step, with the record stored
\* under key k.
SweeperCalls(k) ==
    /\ sw.pc = "notify" /\ sw' # sw
    /\ sw.expired[sw.n] = k /\ Has(robots, k)

\* C32: every notification of the cleanup thread hands the observer a record
\* whose is_connected is false at the moment of the call.
C32_SweeperDeliversDisconnected ==
    [][\A k \in AllKeys : SweeperCalls(k) => ~Stored(k).is_connected]_vars

\* The cleanup thread is inside a tick.
InTick == sw.pc \notin {"unstarted", "sleep", "exited"}

\* C33: the cleanup thread ticks for as long as the core is running: an error
\* inside a tick ends that tick only, the next tick starts after the sleep of
\* one period, and the thread ends only once running is false.
C33_SweeperKeepsTicking ==
    /\ [][(sw.pc # "exited" /\ sw'.pc = "exited") => (~running /\ sw.pc = "sleep")]_vars
    /\ [][(InTick /\ sw' # sw) => sw'.pc # "exited"]_vars
    /\ [][(sw.pc = "sleep" /\ sw'.pc = "next") => sw.slept]_vars
    /\ InTick ~> (sw.pc = "sleep")
    /\ (sw.pc = "sleep") ~> (sw.pc = "next" \/ ~running)

\* after an earlier tick the iterator of the current one is about to raise RuntimeError
C33_Witness == sw.pc = "next" /\ Len(robots) # sw.di_used /\ hist.swept /\ running

-----------------------------------------------------------------------------
(* The store after stop() *)

\* stop() has returned.
StopReturned == main.pc = "stopped"

\* running is false and neither thread is inside a datagram handler or a tick.
AtRest ==
    /\ ~running
    /\ rx.pc \in {"unstarted", "recv", "exited"}
    /\ sw.pc \in {"unstarted", "sleep", "exited"}

\* The record as it is apart from the time since its last update.
Ageless(r) == [r EXCEPT !.age = 0]

\* The records of the store, in the dict's order.
Records == [i \in DOMAIN robots |-> heap[robots[i].ref]]

====
